---------------------------- MODULE Spec2Model ----------------------------
(***************************************************************************)
(* Threshold secret sharing of the shamir crate.                           *)
(*                                                                         *)
(*   algos/sss.rs  Shamir secret sharing over the field of PRIME elements  *)
(*   algos/vss.rs  Feldman verifiable sharing: PRIME = 2003, g = 3         *)
(*                                                                         *)
(* Every function of the two files is an operator that computes what the   *)
(* Rust code computes, loop by loop.  A call that draws from the random    *)
(* generator takes the drawn values as an extra argument, chosen by the    *)
(* action that makes the call.  A Result or a panic is a record            *)
(* [kind, val]: kind is "Ok", the error's name, or the panic.              *)
(*                                                                         *)
(* sss.rs sets PRIME = 2147483647.  The products of two field elements do  *)
(* not fit the integers of the model checker, so the SSS operators run     *)
(* over the field of 5 elements, where every secret, every coefficient and *)
(* every selection of shares is enumerated.  vss.rs runs with its own      *)
(* constants, on a sample of the values its generator can draw.            *)
(***************************************************************************)
EXTENDS Integers, Sequences, FiniteSets, TLC

VARIABLES
    pc,             \* the last call made: "start" before any
    secret,         \* sss: the secret handed to the dealer
    threshold,      \* sss: the threshold argument
    num_shares,     \* sss: the num_shares argument
    coeffs,         \* sss: the polynomial the last call drew
    gen,            \* sss: what generate_polynomial / generate_shares returned
    input,          \* the share list handed to reconstruct_secret
    rec_threshold,  \* the threshold handed to reconstruct_secret
    rec,            \* what reconstruct_secret returned
    eval_x,         \* the point a polynomial is evaluated at
    eval_fx,        \* the value the evaluation returned
    commitments,    \* vss: what generate_commitments pushed
    verdict         \* vss: what verify_shares returned

vars == <<pc, secret, threshold, num_shares, coeffs, gen, input, rec_threshold,
          rec, eval_x, eval_fx, commitments, verdict>>

(***************************************************************************)
(* Bounds of the exploration.                                              *)
(***************************************************************************)
\* Thresholds 0..MaxThreshold, and polynomials of up to MaxThreshold coefficients.
MaxThreshold == 3
\* Share lists handed to reconstruct_secret directly: up to MaxLen shares,
\* x-coordinates 1..MaxX, y-coordinates 0..MaxY.
MaxLen == 3
MaxX == 2
MaxY == 1
\* Polynomials evaluated directly: coefficients 0..MaxCoeff and the largest
\* element of the vss field, at the points 0..MaxPoint.
MaxCoeff == 5
MaxPoint == 5
\* Values drawn by vss generate_polynomial: the MaxRand + 1 smallest and the
\* MaxRand + 1 largest of gen_range(0..PRIME).
MaxRand == 2
\* A tampered share moves y by 1..MaxTamper or by half the field either way
\* (modulo PRIME), or to -1..-MaxTamper.
MaxTamper == 2

(***************************************************************************)
(* Rust integer arithmetic.                                                *)
(***************************************************************************)
\* a % m of Rust on signed integers: the result has the sign of a.
RustRem(a, m) == IF a >= 0 THEN a % m ELSE -((-a) % m)

\* a / b of Rust on signed integers: rounds toward zero.
RustDiv(a, b) ==
    IF (a >= 0) = (b > 0)
    THEN (IF a >= 0 THEN a ELSE -a) \div (IF b > 0 THEN b ELSE -b)
    ELSE -((IF a >= 0 THEN a ELSE -a) \div (IF b > 0 THEN b ELSE -b))

Ok(v) == [kind |-> "Ok", val |-> v]
Err(k) == [kind |-> k, val |-> 0]
None == [kind |-> "None", val |-> 0]

(***************************************************************************)
(* algos/sss.rs                                                            *)
(***************************************************************************)
\* const PRIME: 2147483647 in sss.rs; a field of 5 elements here (see above).
PRIME == 5

\* A faulty GenRange: the range taken inclusive, 1..=PRIME.
GenRangeInclusive == 1 .. PRIME

\* rng.gen_range(1..PRIME)
GenRange == 1 .. (PRIME - 1)

\* generate_polynomial: rnd holds the threshold - 1 values the loop draws.
generate_polynomial(s, t, rnd) ==
    IF t < 2
    THEN Err("InvalidThreshold")
    ELSE Ok(<<s>> \o rnd)

\* The values generate_polynomial(_, t) draws from the generator.
Draws(t) == IF t < 2 THEN {<<>>} ELSE [1 .. (t - 1) -> GenRange]

\* The loop of evaluate_polynomial over coeffs.iter().rev(), i coefficients left.
RECURSIVE HornerLoop(_, _, _, _)
HornerLoop(cs, x, i, result) ==
    IF i = 0
    THEN result
    ELSE HornerLoop(cs, x, i - 1, (result * x + cs[i]) % PRIME)

\* A faulty evaluate_polynomial: the coefficients walked without .rev().
RECURSIVE HornerLoopForward(_, _, _, _)
HornerLoopForward(cs, x, i, result) ==
    IF i > Len(cs)
    THEN result
    ELSE HornerLoopForward(cs, x, i + 1, (result * x + cs[i]) % PRIME)

evaluate_polynomial_forward(cs, x) == HornerLoopForward(cs, x, 1, 0)

evaluate_polynomial(cs, x) == HornerLoop(cs, x, Len(cs), 0)

\* A faulty SharePoint: the range taken from 0, 0..num_shares.
SharePointFromZero(k) == k - 1

\* The k-th value of the range 1..=num_shares that generate_shares walks.
SharePoint(k) == k

\* A faulty generate_shares: the polynomial is generated, and the threshold
\* checked, before the share count is.
generate_shares_threshold_first(s, t, n, rnd) ==
    LET poly == generate_polynomial(s, t, rnd) IN
    IF poly.kind # "Ok"
    THEN poly
    ELSE IF n < t
         THEN Err("InvalidShareCount")
         ELSE Ok([k \in 1 .. n |->
                    <<SharePoint(k), evaluate_polynomial(poly.val, SharePoint(k))>>])

generate_shares(s, t, n, rnd) ==
    IF n < t
    THEN Err("InvalidShareCount")
    ELSE LET poly == generate_polynomial(s, t, rnd) IN
         IF poly.kind # "Ok"
         THEN poly
         ELSE Ok([k \in 1 .. n |->
                    <<SharePoint(k), evaluate_polynomial(poly.val, SharePoint(k))>>])

\* The loop of mod_inverse; returns t when newr reaches 0.
RECURSIVE InverseLoop(_, _, _, _)
InverseLoop(t, newt, r, newr) ==
    IF newr = 0
    THEN t
    ELSE LET quotient == RustDiv(r, newr) IN
         InverseLoop(newt, t - quotient * newt, newr, r - quotient * newr)

mod_inverse(a) ==
    LET t == InverseLoop(0, 1, PRIME, a) IN
    IF t < 0 THEN t + PRIME ELSE t

\* A faulty NumeratorFactor: x_j in place of 0 - x_j.
NumeratorFactorUnsigned(x_j) == x_j

\* The factor (0 - x_j) mod PRIME of the numerator.
NumeratorFactor(x_j) == PRIME - x_j

\* The inner loop of reconstruct_secret over j in 0..threshold (1-based here):
\* <<numerator, denominator>> for share i.
RECURSIVE BasisLoop(_, _, _, _, _, _)
BasisLoop(sh, t, i, j, numerator, denominator) ==
    IF j > t
    THEN <<numerator, denominator>>
    ELSE IF i = j
         THEN BasisLoop(sh, t, i, j + 1, numerator, denominator)
         ELSE LET x_i == sh[i][1]
                  x_j == sh[j][1]
                  diff == RustRem(x_i - x_j + PRIME, PRIME)
              IN BasisLoop(sh, t, i, j + 1,
                           RustRem(numerator * NumeratorFactor(x_j), PRIME),
                           RustRem(denominator * diff, PRIME))

\* The outer loop of reconstruct_secret over i in 0..threshold.
RECURSIVE SecretLoop(_, _, _, _)
SecretLoop(sh, t, i, acc) ==
    IF i > t
    THEN acc
    ELSE LET nd == BasisLoop(sh, t, i, 1, 1, 1)
             lagrange_coeff == RustRem(nd[1] * mod_inverse(nd[2]), PRIME)
             y_i == sh[i][2]
         IN SecretLoop(sh, t, i + 1,
                       RustRem(acc + RustRem(y_i * lagrange_coeff, PRIME), PRIME))

\* A faulty TooFewShares: <= in place of <.
TooFewSharesOrEqual(sh, t) == Len(sh) <= t

\* The guard of reconstruct_secret.
TooFewShares(sh, t) == Len(sh) < t

reconstruct_secret(sh, t) ==
    IF TooFewShares(sh, t)
    THEN Err("InsufficientShares")
    ELSE Ok(SecretLoop(sh, t, 1, 0) % PRIME)

(***************************************************************************)
(* algos/vss.rs                                                            *)
(***************************************************************************)
SECRET == 1234
VSS_PRIME == 2003
THRESHOLD == 3
SHARES_COUNT == 5
g == 3

NegativeExponent == "panic: Negative exponents not supported"
NoInverse == "panic: Modular inverse does not exist"
NotEnoughShares == "panic: Not enough shares to reconstruct the secret!"

\* The while loop of mod_pow.
RECURSIVE PowLoop(_, _, _, _)
PowLoop(result, base, exp, modulus) ==
    IF exp > 0
    THEN PowLoop(IF exp % 2 = 1 THEN RustRem(result * base, modulus) ELSE result,
                 RustRem(base * base, modulus),
                 exp \div 2,
                 modulus)
    ELSE result

mod_pow(base, exponent, modulus) ==
    IF modulus = 1
    THEN Ok(0)
    ELSE IF exponent < 0
         THEN Err(NegativeExponent)
         ELSE Ok(PowLoop(1, RustRem(base, modulus), exponent, modulus))

\* The loop of vss mod_inverse; returns <<t, r>> when newr reaches 0.
RECURSIVE VssInverseLoop(_, _, _, _)
VssInverseLoop(t, newt, r, newr) ==
    IF newr = 0
    THEN <<t, r>>
    ELSE LET quotient == RustDiv(r, newr) IN
         VssInverseLoop(newt, t - quotient * newt, newr, r - quotient * newr)

vss_mod_inverse(a, m) ==
    LET a_pos == RustRem(IF a < 0 THEN a + m ELSE a, m)
        tr == VssInverseLoop(0, 1, m, a_pos)
    IN IF tr[2] > 1
       THEN Err(NoInverse)
       ELSE Ok(IF tr[1] < 0 THEN tr[1] + m ELSE tr[1])

\* The values vss generate_polynomial draws: rng.gen_range(0..PRIME).
VssGenRange == 0 .. (VSS_PRIME - 1)

\* vss generate_polynomial: rnd holds the THRESHOLD - 1 drawn values.
vss_generate_polynomial(rnd) == <<SECRET>> \o rnd

\* The inner loop of vss generate_shares: the polynomial at x, term by term.
RECURSIVE PowerSumLoop(_, _, _, _)
PowerSumLoop(cs, xv, power, acc) ==
    IF power >= Len(cs)
    THEN acc
    ELSE PowerSumLoop(cs, xv, power + 1,
             RustRem(acc + cs[power + 1] * mod_pow(xv, power, VSS_PRIME).val, VSS_PRIME))

share_value(cs, xv) == PowerSumLoop(cs, xv, 0, 0)

vss_generate_shares(cs) == [k \in 1 .. SHARES_COUNT |-> <<k, share_value(cs, k)>>]

\* generate_commitments: g^c mod PRIME for each coefficient.
vss_generate_commitments(cs) ==
    IF \E i \in 1 .. Len(cs) : mod_pow(g, cs[i], VSS_PRIME).kind # "Ok"
    THEN Err(NegativeExponent)
    ELSE Ok([i \in 1 .. Len(cs) |-> mod_pow(g, cs[i], VSS_PRIME).val])

\* The loop of verify_shares over j in 0..commitments.len(), for one share.
RECURSIVE RhsLoop(_, _, _, _)
RhsLoop(cms, xv, j, rhs) ==
    IF j >= Len(cms)
    THEN Ok(rhs)
    ELSE LET power == mod_pow(xv, j, VSS_PRIME)
             term == mod_pow(cms[j + 1], power.val, VSS_PRIME)
         IN IF power.kind # "Ok" THEN power
            ELSE IF term.kind # "Ok" THEN term
            ELSE RhsLoop(cms, xv, j + 1, RustRem(rhs * term.val, VSS_PRIME))

\* The body of the loop of verify_shares for the share (xv, yv): lhs == rhs.
share_verified(cms, xv, yv) ==
    LET lhs == mod_pow(g, yv, VSS_PRIME) IN
    IF lhs.kind # "Ok"
    THEN lhs
    ELSE LET rhs == RhsLoop(cms, xv, 0, 1) IN
         IF rhs.kind # "Ok" THEN rhs ELSE Ok(lhs.val = rhs.val)

\* The loop of verify_shares over the shares, from the k-th on.
RECURSIVE VerifyLoop(_, _, _, _)
VerifyLoop(cms, sh, k, all_verified) ==
    IF k > Len(sh)
    THEN Ok(all_verified)
    ELSE LET one == share_verified(cms, sh[k][1], sh[k][2]) IN
         IF one.kind # "Ok"
         THEN one
         ELSE VerifyLoop(cms, sh, k + 1, all_verified /\ one.val)

verify_shares(cms, sh) == VerifyLoop(cms, sh, 1, TRUE)

\* The loop of lagrange_basis over x_values: <<numerator, denominator>>.
RECURSIVE VssBasisLoop(_, _, _, _, _, _)
VssBasisLoop(xv, x_values, j, m, numerator, denominator) ==
    IF m > Len(x_values)
    THEN <<numerator, denominator>>
    ELSE IF m = j
         THEN VssBasisLoop(xv, x_values, j, m + 1, numerator, denominator)
         ELSE LET f0 == RustRem(xv - x_values[m], VSS_PRIME)
                  factor == IF f0 < 0 THEN f0 + VSS_PRIME ELSE f0
                  d0 == RustRem(x_values[j] - x_values[m], VSS_PRIME)
                  diff == IF d0 < 0 THEN d0 + VSS_PRIME ELSE d0
              IN VssBasisLoop(xv, x_values, j, m + 1,
                              RustRem(numerator * factor, VSS_PRIME),
                              RustRem(denominator * diff, VSS_PRIME))

lagrange_basis(xv, x_values, j) ==
    LET nd == VssBasisLoop(xv, x_values, j, 1, 1, 1)
        denominator_inv == vss_mod_inverse(nd[2], VSS_PRIME)
    IN IF denominator_inv.kind # "Ok"
       THEN denominator_inv
       ELSE Ok(RustRem(nd[1] * denominator_inv.val, VSS_PRIME))

\* The loop of vss reconstruct_secret over j in 0..threshold (1-based here).
RECURSIVE VssSecretLoop(_, _, _, _)
VssSecretLoop(sel, t, j, acc) ==
    IF j > t
    THEN Ok(IF acc < 0 THEN acc + VSS_PRIME ELSE acc)
    ELSE LET basis == lagrange_basis(0, [k \in 1 .. t |-> sel[k][1]], j) IN
         IF basis.kind # "Ok"
         THEN basis
         ELSE VssSecretLoop(sel, t, j + 1,
                  RustRem(acc + RustRem(sel[j][2] * basis.val, VSS_PRIME), VSS_PRIME))

vss_reconstruct_secret(sh, t) ==
    IF Len(sh) < t
    THEN Err(NotEnoughShares)
    ELSE VssSecretLoop(SubSeq(sh, 1, t), t, 1, 0)

(***************************************************************************)
(* The calls.  Each specification starts from the arguments of the calls   *)
(* it makes; an action is one call.                                        *)
(***************************************************************************)
NoCall ==
    /\ pc = "start"
    /\ secret = 0 /\ threshold = 0 /\ num_shares = 0
    /\ coeffs = <<>> /\ gen = None
    /\ input = <<>> /\ rec_threshold = 0 /\ rec = None
    /\ eval_x = 0 /\ eval_fx = None
    /\ commitments = None /\ verdict = None

\* Share counts up to one past the size of the field: PRIME + 1 is the first
\* count at which two x-coordinates agree modulo PRIME.
MaxShares == PRIME + 1

\* The sequences of length n over S without a repeated element.
Injective(n, S) == {f \in [1 .. n -> S] : \A a, b \in 1 .. n : a # b => f[a] # f[b]}

\* The sequences over S of length 0..n.
SeqUpTo(n, S) == UNION {[1 .. k -> S] : k \in 0 .. n}

---------------------------------------------------------------------------
\* A dealer's session with sss.rs.
InitSSS ==
    /\ pc = "start"
    /\ secret \in 0 .. (PRIME - 1)
    /\ threshold \in 0 .. MaxThreshold
    /\ num_shares \in 0 .. MaxShares
    /\ coeffs = <<>> /\ gen = None
    /\ input = <<>> /\ rec_threshold = 0 /\ rec = None
    /\ eval_x = 0 /\ eval_fx = None
    /\ commitments = None /\ verdict = None

GeneratePolynomial ==
    /\ pc = "start"
    /\ \E rnd \in Draws(threshold) :
         /\ gen' = generate_polynomial(secret, threshold, rnd)
         /\ coeffs' = IF gen'.kind = "Ok" THEN gen'.val ELSE <<>>
    /\ pc' = "generate_polynomial"
    /\ UNCHANGED <<secret, threshold, num_shares, input, rec_threshold, rec,
                   eval_x, eval_fx, commitments, verdict>>

\* coeffs keeps the polynomial generate_shares drew and dropped.
GenerateShares ==
    /\ pc = "start"
    /\ \E rnd \in Draws(threshold) :
         /\ gen' = generate_shares(secret, threshold, num_shares, rnd)
         /\ coeffs' = IF gen'.kind = "Ok"
                      THEN generate_polynomial(secret, threshold, rnd).val
                      ELSE <<>>
    /\ pc' = "generate_shares"
    /\ UNCHANGED <<secret, threshold, num_shares, input, rec_threshold, rec,
                   eval_x, eval_fx, commitments, verdict>>

\* Any threshold of the generated shares, in any order.
ReconstructFromShares ==
    /\ pc = "generate_shares"
    /\ gen.kind = "Ok"
    /\ \E sel \in Injective(threshold, 1 .. num_shares) :
         /\ input' = [k \in 1 .. threshold |-> gen.val[sel[k]]]
         /\ rec_threshold' = threshold
         /\ rec' = reconstruct_secret(input', threshold)
    /\ pc' = "reconstruct_secret"
    /\ UNCHANGED <<secret, threshold, num_shares, coeffs, gen,
                   eval_x, eval_fx, commitments, verdict>>

NextSSS == GeneratePolynomial \/ GenerateShares \/ ReconstructFromShares

SpecSSS == InitSSS /\ [][NextSSS]_vars

---------------------------------------------------------------------------
\* reconstruct_secret of either file on a share list of the caller's.
ShareLists == SeqUpTo(MaxLen, (1 .. MaxX) \X (0 .. MaxY))

InitRec ==
    /\ pc = "start"
    /\ input \in ShareLists
    /\ rec_threshold \in 0 .. MaxThreshold
    /\ secret = 0 /\ threshold = 0 /\ num_shares = 0
    /\ coeffs = <<>> /\ gen = None /\ rec = None
    /\ eval_x = 0 /\ eval_fx = None
    /\ commitments = None /\ verdict = None

ReconstructSecret ==
    /\ pc = "start"
    /\ rec' = reconstruct_secret(input, rec_threshold)
    /\ pc' = "reconstruct_secret"
    /\ UNCHANGED <<secret, threshold, num_shares, coeffs, gen, input,
                   rec_threshold, eval_x, eval_fx, commitments, verdict>>

VssReconstructSecret ==
    /\ pc = "start"
    /\ rec' = vss_reconstruct_secret(input, rec_threshold)
    /\ pc' = "vss_reconstruct_secret"
    /\ UNCHANGED <<secret, threshold, num_shares, coeffs, gen, input,
                   rec_threshold, eval_x, eval_fx, commitments, verdict>>

NextRec == ReconstructSecret \/ VssReconstructSecret

SpecRec == InitRec /\ [][NextRec]_vars

---------------------------------------------------------------------------
\* The two evaluations of a polynomial, on coefficients of the caller's.
EvalCoeffs == (0 .. MaxCoeff) \cup {VSS_PRIME - 1}

InitEval ==
    /\ pc = "start"
    /\ coeffs \in SeqUpTo(MaxThreshold, EvalCoeffs)
    /\ eval_x \in 0 .. MaxPoint
    /\ secret = 0 /\ threshold = 0 /\ num_shares = 0
    /\ gen = None /\ input = <<>> /\ rec_threshold = 0 /\ rec = None
    /\ eval_fx = None
    /\ commitments = None /\ verdict = None

EvaluatePolynomial ==
    /\ pc = "start"
    /\ eval_fx' = Ok(evaluate_polynomial(coeffs, eval_x))
    /\ pc' = "evaluate_polynomial"
    /\ UNCHANGED <<secret, threshold, num_shares, coeffs, gen, input,
                   rec_threshold, rec, eval_x, commitments, verdict>>

VssShareValue ==
    /\ pc = "start"
    /\ eval_fx' = Ok(share_value(coeffs, eval_x))
    /\ pc' = "share_value"
    /\ UNCHANGED <<secret, threshold, num_shares, coeffs, gen, input,
                   rec_threshold, rec, eval_x, commitments, verdict>>

NextEval == EvaluatePolynomial \/ VssShareValue

SpecEval == InitEval /\ [][NextEval]_vars

---------------------------------------------------------------------------
\* A dealer's session with vss.rs, and a holder checking one share.
VssSample == {v \in VssGenRange : v <= MaxRand \/ v >= VSS_PRIME - 1 - MaxRand}

\* What a share's y is replaced by.
TamperedY(yv) ==
    LET half == (VSS_PRIME - 1) \div 2 IN
    {(yv + d) % VSS_PRIME : d \in (1 .. MaxTamper) \cup {half, VSS_PRIME - half}}
        \cup {-d : d \in 1 .. MaxTamper}

InitVSS == NoCall

VssGeneratePolynomial ==
    /\ pc = "start"
    /\ \E rnd \in [1 .. (THRESHOLD - 1) -> VssSample] :
         coeffs' = vss_generate_polynomial(rnd)
    /\ pc' = "vss_generate_polynomial"
    /\ UNCHANGED <<secret, threshold, num_shares, gen, input, rec_threshold, rec,
                   eval_x, eval_fx, commitments, verdict>>

VssGenerateShares ==
    /\ pc = "vss_generate_polynomial"
    /\ gen' = Ok(vss_generate_shares(coeffs))
    /\ pc' = "vss_generate_shares"
    /\ UNCHANGED <<secret, threshold, num_shares, coeffs, input, rec_threshold, rec,
                   eval_x, eval_fx, commitments, verdict>>

VssGenerateCommitments ==
    /\ pc = "vss_generate_shares"
    /\ commitments' = vss_generate_commitments(coeffs)
    /\ pc' = "vss_generate_commitments"
    /\ UNCHANGED <<secret, threshold, num_shares, coeffs, gen, input, rec_threshold,
                   rec, eval_x, eval_fx, verdict>>

\* The dealer verifies all the shares, as main does.
VssVerifyShares ==
    /\ pc = "vss_generate_commitments"
    /\ input' = gen.val
    /\ verdict' = verify_shares(commitments.val, input')
    /\ pc' = "verify_shares"
    /\ UNCHANGED <<secret, threshold, num_shares, coeffs, gen, rec_threshold, rec,
                   eval_x, eval_fx, commitments>>

\* A holder verifies the share it was given.
VssVerifyOwnShare ==
    /\ pc = "vss_generate_commitments"
    /\ \E k \in 1 .. SHARES_COUNT :
         /\ input' = <<gen.val[k]>>
         /\ verdict' = verify_shares(commitments.val, input')
    /\ pc' = "verify_own_share"
    /\ UNCHANGED <<secret, threshold, num_shares, coeffs, gen, rec_threshold, rec,
                   eval_x, eval_fx, commitments>>

\* A holder verifies a share whose y was replaced.
VssVerifyTamperedShare ==
    /\ pc = "vss_generate_commitments"
    /\ \E k \in 1 .. SHARES_COUNT :
         \E yv \in TamperedY(gen.val[k][2]) :
           /\ input' = <<<<gen.val[k][1], yv>>>>
           /\ verdict' = verify_shares(commitments.val, input')
    /\ pc' = "verify_tampered_share"
    /\ UNCHANGED <<secret, threshold, num_shares, coeffs, gen, rec_threshold, rec,
                   eval_x, eval_fx, commitments>>

NextVSS ==
    \/ VssGeneratePolynomial
    \/ VssGenerateShares
    \/ VssGenerateCommitments
    \/ VssVerifyShares
    \/ VssVerifyOwnShare
    \/ VssVerifyTamperedShare

SpecVSS == InitVSS /\ [][NextVSS]_vars

(***************************************************************************)
(* The properties.                                                         *)
(***************************************************************************)
RECURSIVE Power(_, _)
Power(b, n) == IF n = 0 THEN 1 ELSE b * Power(b, n - 1)

\* The sum over i of cs[i] * xv^(i-1), over the integers.
RECURSIVE PolySum(_, _, _)
PolySum(cs, xv, i) ==
    IF i > Len(cs) THEN 0 ELSE cs[i] * Power(xv, i - 1) + PolySum(cs, xv, i + 1)

PolyValue(cs, xv) == PolySum(cs, xv, 1)

\* Two of the first t shares of sh have the same x-coordinate.
DuplicateX(sh, t) ==
    \E i, j \in 1 .. t : i < j /\ sh[i][1] = sh[j][1]

\* C1 (as claimed), under SpecSSS: reconstruct_secret with threshold T, on any
\* T of the N shares of generate_shares(s, T, N) in any order, returns s, for
\* every N >= T.
C1_RoundTripAnyCount ==
    pc = "reconstruct_secret" => rec = Ok(secret)

\* C1 (amended), under SpecSSS: the same, for every N with T <= N <= PRIME,
\* that is while the x-coordinates 1..N are distinct modulo PRIME.
C1_RoundTrip ==
    (pc = "reconstruct_secret" /\ num_shares <= PRIME) => rec = Ok(secret)

\* Three of PRIME shares, handed over out of order, give back a nonzero secret.
C1_Witness ==
    /\ pc = "reconstruct_secret"
    /\ num_shares = PRIME
    /\ threshold = 3
    /\ input[1][1] > input[2][1]
    /\ secret # 0
    /\ rec = Ok(secret)

\* C2, under SpecVSS: every share generate_shares produced passes
\* verify_shares against the commitments of the same polynomial, whether the
\* shares are verified together or one at a time.
C2_HonestSharesVerify ==
    pc \in {"verify_shares", "verify_own_share"} => verdict = Ok(TRUE)

\* C3, under SpecVSS: a generated share whose y was replaced by another value
\* of [0, PRIME) fails verify_shares.
C3_TamperedShareRejected ==
    (pc = "verify_tampered_share" /\ input[1][2] \in 0 .. (VSS_PRIME - 1))
        => verdict = Ok(FALSE)

\* C4, under SpecRec: when two of the first threshold shares have the same
\* x-coordinate, reconstruct_secret of either file fails for want of an
\* inverse and returns no secret.
C4_DuplicateXRejected ==
    (/\ pc \in {"reconstruct_secret", "vss_reconstruct_secret"}
     /\ Len(input) >= rec_threshold
     /\ DuplicateX(input, rec_threshold))
        => rec.kind = NoInverse

\* C5, under SpecRec: reconstruct_secret fails with InsufficientShares, and
\* returns no secret, exactly when the list is shorter than the threshold (in
\* vss.rs the failure is the panic "Not enough shares").
C5_Insufficiency ==
    /\ pc = "reconstruct_secret" =>
         /\ Len(input) < rec_threshold => rec = Err("InsufficientShares")
         /\ Len(input) >= rec_threshold => rec.kind # "InsufficientShares"
    /\ pc = "vss_reconstruct_secret" =>
         /\ Len(input) < rec_threshold => rec = Err(NotEnoughShares)
         /\ Len(input) >= rec_threshold => rec.kind # NotEnoughShares

\* reconstruct_secret was refused one share short of the threshold.
C5_Witness ==
    /\ pc = "reconstruct_secret"
    /\ rec_threshold = 3
    /\ Len(input) = 2
    /\ rec = Err("InsufficientShares")

\* C6, under SpecEval: the Horner evaluation of sss.rs and the power-sum
\* evaluation of vss.rs each return the sum of a_i * x^i reduced modulo the
\* prime of their file, a value of [0, prime); [5, 2, 3] at 2 is 21.
C6_Evaluation ==
    /\ pc = "evaluate_polynomial" =>
         /\ eval_fx = Ok(PolyValue(coeffs, eval_x) % PRIME)
         /\ eval_fx.val \in 0 .. (PRIME - 1)
    /\ pc = "share_value" =>
         /\ eval_fx = Ok(PolyValue(coeffs, eval_x) % VSS_PRIME)
         /\ eval_fx.val \in 0 .. (VSS_PRIME - 1)
         /\ (coeffs = <<5, 2, 3>> /\ eval_x = 2) => eval_fx = Ok(21)

\* The Horner evaluation of a polynomial of degree 2 whose sum exceeds PRIME.
C6_Witness ==
    /\ pc = "evaluate_polynomial"
    /\ coeffs = <<4, 2, 3>>
    /\ eval_x = 2
    /\ eval_fx = Ok(20 % PRIME)

\* C7, under SpecSSS: for T >= 2 and N >= T, generate_shares returns N shares,
\* the k-th with x = k and y the value at k, modulo PRIME, of one polynomial of
\* T coefficients whose constant term is the secret.
C7_ShareShape ==
    pc = "generate_shares" =>
        /\ (threshold >= 2 /\ num_shares >= threshold) => gen.kind = "Ok"
        /\ gen.kind = "Ok" =>
             /\ Len(gen.val) = num_shares
             /\ Len(coeffs) = threshold
             /\ coeffs[1] = secret
             /\ \A k \in 1 .. num_shares :
                  gen.val[k] = <<k, PolyValue(coeffs, k) % PRIME>>

\* generate_shares returned PRIME shares of a polynomial of degree 2.
C7_Witness ==
    /\ pc = "generate_shares"
    /\ gen.kind = "Ok"
    /\ threshold = 3
    /\ num_shares = PRIME
    /\ Len(gen.val) = PRIME

\* C8, under SpecSSS: for T >= 2, generate_polynomial returns T coefficients,
\* the first the secret, the others in [1, PRIME), all in [0, PRIME).
C8_PolynomialShape ==
    (pc = "generate_polynomial" /\ threshold >= 2) =>
        /\ gen.kind = "Ok"
        /\ Len(gen.val) = threshold
        /\ gen.val[1] = secret
        /\ \A i \in 1 .. threshold : gen.val[i] \in 0 .. (PRIME - 1)
        /\ \A i \in 2 .. threshold : gen.val[i] \in 1 .. (PRIME - 1)

\* generate_polynomial returned three coefficients, the last the largest drawn.
C8_Witness ==
    /\ pc = "generate_polynomial"
    /\ threshold = 3
    /\ gen.kind = "Ok"
    /\ gen.val[3] = PRIME - 1

\* C9, under SpecSSS: generate_polynomial fails with InvalidThreshold exactly
\* when T < 2; generate_shares fails with InvalidShareCount when N < T, with
\* InvalidThreshold when T < 2 and N >= T, and returns shares otherwise.
C9_Validation ==
    /\ pc = "generate_polynomial" =>
         (threshold < 2 <=> gen.kind = "InvalidThreshold")
    /\ pc = "generate_shares" =>
         /\ num_shares < threshold => gen.kind = "InvalidShareCount"
         /\ (threshold < 2 /\ num_shares >= threshold) => gen.kind = "InvalidThreshold"
         /\ gen.kind = "Ok" <=> (threshold >= 2 /\ num_shares >= threshold)

\* generate_shares refused a share count below a threshold that is itself invalid.
C9_Witness ==
    /\ pc = "generate_shares"
    /\ threshold = 1
    /\ num_shares = 0
    /\ gen.kind = "InvalidShareCount"

\* C10, under SpecVSS: verify_shares returns a boolean for every share, a
\* tampered or out-of-range one included; it never panics.
C10_VerificationTotal ==
    pc \in {"verify_shares", "verify_own_share", "verify_tampered_share"}
        => verdict.kind = "Ok"

=============================================================================
